---- MODULE Spec2Model ----
(***************************************************************************)
(* Model of src/data_processing.py: the character vocabulary               *)
(* (char_to_index, index_to_char), the bigram extractor                    *)
(* (load_and_preprocess_data), the counting loop (count_bigrams) and the   *)
(* label lookups of plot_bigram_counts, run in the order of the script's   *)
(* __main__ block.                                                         *)
(*                                                                         *)
(* Representation.                                                         *)
(*  - A character is a one-element TLA+ string; a Python str is a sequence *)
(*    of characters.  "NL" is the newline, " " the blank, "I-dot" is       *)
(*    U+0130 and "dot-above" is U+0307.                                    *)
(*  - A Python dict is the sequence of its <<key, value>> items in         *)
(*    insertion order.                                                     *)
(*  - The bigram list is kept run-length encoded: the item <<a, b, n>>     *)
(*    stands for n consecutive occurrences of the tuple (a, b).            *)
(*  - The frequency table is a function on (0..V-1) \X (0..V-1) whose      *)
(*    cells are 32-bit signed integers.                                    *)
(***************************************************************************)
EXTENDS Integers, Sequences, FiniteSets, TLC

VARIABLES
    pc,             \* position in the script
    alphabet,       \* argument of char_to_index
    start_token,    \* start sentinel
    end_token,      \* end sentinel
    text,           \* contents of the input file
    lines,          \* file.read().splitlines()
    ln,             \* number of records of lines already processed
    bigrams,        \* the bigram list (run-length encoded)
    char_to_idx,    \* result of char_to_index
    idx_to_char,    \* result of index_to_char
    bigram_counts,  \* the tensor of count_bigrams
    pos,            \* index of the run of bigrams the counting loop is in
    rem,            \* occurrences of that run still to be processed
    labels,         \* the cell labels computed by plot_bigram_counts
    err             \* the exception that ended the script, or "none"

vars == <<pc, alphabet, start_token, end_token, text, lines, ln, bigrams,
          char_to_idx, idx_to_char, bigram_counts, pos, rem, labels, err>>

(***************************************************************************)
(* Bounds of the model.                                                    *)
(***************************************************************************)
MaxAlpha == 2       \* longest alphabet
MaxRuns == 2        \* most runs in a directly supplied bigram list
MaxText == 5        \* most characters in the input file

(***************************************************************************)
(* Width of a cell of the tensor (dtype=torch.int32).                      *)
(***************************************************************************)
Int32Max == 2147483647
Int32Min == -Int32Max - 1

AlphaChars == {"a", "b"}
TokenChars == {"-", ".", "a"}
BigramChars == {"a", "."}
RunLengths == {1, Int32Max}
FileChars == {"a", "B", " ", "NL", "I-dot"}
FileStartTokens == {"!", "-"}
FileEndTokens == {"."}
FileAlphabets == {<<"a", "b">>}

SeqsUpTo(S, n) == UNION {[1..m -> S] : m \in 0..n}

(***************************************************************************)
(* Python dict, as the sequence of its items in insertion order.           *)
(***************************************************************************)
Keys(d) == {d[i][1] : i \in DOMAIN d}
Values(d) == {d[i][2] : i \in DOMAIN d}
Has(d, k) == k \in Keys(d)
Get(d, k) == d[CHOOSE i \in DOMAIN d : d[i][1] = k][2]
\* Put, were an assignment to an existing key to keep the earlier value
PutKeepsFirst(d, k, v) == IF k \in {d[i][1] : i \in DOMAIN d} THEN d ELSE Append(d, <<k, v>>)

\* d[k] = v: an existing key keeps its place, a new key is appended
Put(d, k, v) ==
    IF Has(d, k)
    THEN [i \in DOMAIN d |-> IF d[i][1] = k THEN <<k, v>> ELSE d[i]]
    ELSE Append(d, <<k, v>>)

(***************************************************************************)
(* char_to_index                                                           *)
(***************************************************************************)
\* the loop "for idx, char in enumerate(alphabet, start=1)", first n rounds
RECURSIVE AssignAlphabet(_, _, _)
AssignAlphabet(d, a, n) ==
    IF n = 0 THEN d
    ELSE Put(AssignAlphabet(d, a, n - 1), a[n], n)

\* AssignEndToken, were the end token given the index len(alphabet)
AssignEndTokenShort(d, a, e) == Put(d, e, Len(a))

AssignEndToken(d, a, e) == Put(d, e, Len(a) + 1)

char_to_index(a, s, e) ==
    AssignEndToken(AssignAlphabet(<<<<s, 0>>>>, a, Len(a)), a, e)

(***************************************************************************)
(* index_to_char: {index: char for char, index in char_to_index.items()}   *)
(***************************************************************************)
RECURSIVE ReverseItems(_, _)
ReverseItems(d, n) ==
    IF n = 0 THEN <<>>
    ELSE Put(ReverseItems(d, n - 1), d[n][2], d[n][1])

\* index_to_char, were the last item left out
index_to_char_short(d) == ReverseItems(d, Len(d) - 1)

index_to_char(d) == ReverseItems(d, Len(d))

(***************************************************************************)
(* Python str methods used by load_and_preprocess_data                     *)
(***************************************************************************)
Whitespace == {" ", "NL"}

\* str.splitlines(): the records between newlines; a final newline ends the
\* last record and opens no new one.  cur is the record being read.
RECURSIVE SplitLinesFrom(_, _, _)
SplitLinesFrom(s, i, cur) ==
    IF i > Len(s) THEN (IF cur = <<>> THEN <<>> ELSE <<cur>>)
    ELSE IF s[i] = "NL" THEN <<cur>> \o SplitLinesFrom(s, i + 1, <<>>)
    ELSE SplitLinesFrom(s, i + 1, Append(cur, s[i]))

splitlines(s) == SplitLinesFrom(s, 1, <<>>)

\* str.split(): the maximal runs of non-whitespace characters
RECURSIVE SplitFrom(_, _, _)
SplitFrom(s, i, cur) ==
    IF i > Len(s) THEN (IF cur = <<>> THEN <<>> ELSE <<cur>>)
    ELSE IF s[i] \in Whitespace
         THEN (IF cur = <<>> THEN <<>> ELSE <<cur>>) \o SplitFrom(s, i + 1, <<>>)
         ELSE SplitFrom(s, i + 1, Append(cur, s[i]))

split(s) == SplitFrom(s, 1, <<>>)

\* str.lower() of one character: U+0130 lowercases to the two characters
\* U+0069 U+0307, every other character to one character
LowerChar(c) ==
    IF c = "B" THEN <<"b">>
    ELSE IF c = "I-dot" THEN <<"i", "dot-above">>
    ELSE <<c>>

\* lower, were the word left as it is
lower_identity(s) == s

RECURSIVE lower(_)
lower(s) == IF s = <<>> THEN <<>> ELSE LowerChar(Head(s)) \o lower(Tail(s))

(***************************************************************************)
(* load_and_preprocess_data                                                *)
(***************************************************************************)
\* word_bigrams, were the range one short
word_bigrams_short(w) ==
    [i \in 1..(Len(w) - 2) |-> <<w[i], w[i + 1], 1>>]

\* [(processed_word[i], processed_word[i + 1]) for i in range(len - 1)]
word_bigrams(w) ==
    [i \in 1..(Len(w) - 1) |-> <<w[i], w[i + 1], 1>>]

\* processed_word, were the last token of the record taken as the word
processed_word_last(line, s, e) ==
    <<s>> \o lower(split(line)[Len(split(line))]) \o <<e>>

processed_word(line, s, e) == <<s>> \o lower(split(line)[1]) \o <<e>>

\* one round of "for line in lines"
LineBigrams(line, s, e) ==
    IF split(line) = <<>> THEN <<>>
    ELSE word_bigrams(processed_word(line, s, e))

(***************************************************************************)
(* count_bigrams                                                           *)
(***************************************************************************)
\* zeros, were the tensor one row and one column short
zeros_short(V) == [c \in (0..(V - 2)) \X (0..(V - 2)) |-> 0]

\* torch.zeros((vocab_size, vocab_size), dtype=torch.int32)
zeros(V) == [c \in (0..(V - 1)) \X (0..(V - 1)) |-> 0]

\* n additions of 1 to an int32 cell (0 <= n <= Int32Max): two's complement
Add32(c, n) ==
    IF c > Int32Max - n
    THEN Int32Min + (n - (Int32Max - c) - 1)
    ELSE c + n

\* "if char1 in char_to_idx and char2 in char_to_idx"
InVocabulary(d, b) == Has(d, b[1]) /\ Has(d, b[2])

\* bigram_counts[idx1, idx2] addresses a cell of the tensor
InRange(T, idx1, idx2) == <<idx1, idx2>> \in DOMAIN T

\* n rounds of the loop body on the same bigram b, the tensor being T
CountRounds(T, d, b, n) ==
    IF InVocabulary(d, b)
    THEN [T EXCEPT ![<<Get(d, b[1]), Get(d, b[2])>>] = Add32(@, n)]
    ELSE T

\* the loop body raises IndexError on bigram b
Raises(T, d, b) ==
    InVocabulary(d, b) /\ ~InRange(T, Get(d, b[1]), Get(d, b[2]))

RunLen(bs, p) == IF p <= Len(bs) THEN bs[p][3] ELSE 0

(***************************************************************************)
(* plot_bigram_counts: the lookups idx_to_char[i] + idx_to_char[j]         *)
(***************************************************************************)
PlotLabels(T, r) == [c \in DOMAIN T |-> <<Get(r, c[1]), Get(r, c[2])>>]
PlotRaises(T, r) == \E c \in DOMAIN T : ~Has(r, c[1]) \/ ~Has(r, c[2])

(***************************************************************************)
(* The script                                                              *)
(***************************************************************************)
NoDict == <<>>
NoTable == zeros(0)

\* a run of the script on a bigram list handed to count_bigrams directly
Init ==
    /\ alphabet \in SeqsUpTo(AlphaChars, MaxAlpha)
    /\ start_token \in TokenChars
    /\ end_token \in TokenChars
    /\ bigrams \in SeqsUpTo(BigramChars \X BigramChars \X RunLengths, MaxRuns)
    /\ text = <<>>
    /\ lines = <<>>
    /\ ln = 0
    /\ pc = "char_to_index"
    /\ char_to_idx = NoDict
    /\ idx_to_char = NoDict
    /\ bigram_counts = NoTable
    /\ pos = 0
    /\ rem = 0
    /\ labels = NoTable
    /\ err = "none"

\* a run of the script on an input file
InitFile ==
    /\ alphabet \in FileAlphabets
    /\ start_token \in FileStartTokens
    /\ end_token \in FileEndTokens
    /\ text \in SeqsUpTo(FileChars, MaxText)
    /\ bigrams = <<>>
    /\ lines = <<>>
    /\ ln = 0
    /\ pc = "char_to_index"
    /\ char_to_idx = NoDict
    /\ idx_to_char = NoDict
    /\ bigram_counts = NoTable
    /\ pos = 0
    /\ rem = 0
    /\ labels = NoTable
    /\ err = "none"

CallCharToIndex(next) ==
    /\ pc = "char_to_index"
    /\ char_to_idx' = char_to_index(alphabet, start_token, end_token)
    /\ pc' = next
    /\ UNCHANGED <<alphabet, start_token, end_token, text, lines, ln, bigrams,
                   idx_to_char, bigram_counts, pos, rem, labels, err>>

\* lines = file.read().splitlines(); bigrams = []
ReadLines ==
    /\ pc = "load"
    /\ lines' = splitlines(text)
    /\ ln' = 0
    /\ bigrams' = <<>>
    /\ pc' = "load_loop"
    /\ UNCHANGED <<alphabet, start_token, end_token, text, char_to_idx,
                   idx_to_char, bigram_counts, pos, rem, labels, err>>

\* one round of "for line in lines"
LoadLine ==
    /\ pc = "load_loop"
    /\ ln < Len(lines)
    /\ bigrams' = bigrams \o LineBigrams(lines[ln + 1], start_token, end_token)
    /\ ln' = ln + 1
    /\ UNCHANGED <<pc, alphabet, start_token, end_token, text, lines,
                   char_to_idx, idx_to_char, bigram_counts, pos, rem, labels, err>>

LoadReturn ==
    /\ pc = "load_loop"
    /\ ln = Len(lines)
    /\ pc' = "count_bigrams"
    /\ UNCHANGED <<alphabet, start_token, end_token, text, lines, ln, bigrams,
                   char_to_idx, idx_to_char, bigram_counts, pos, rem, labels, err>>

\* vocab_size = len(char_to_idx); bigram_counts = torch.zeros(...)
CountInit ==
    /\ pc = "count_bigrams"
    /\ bigram_counts' = zeros(Len(char_to_idx))
    /\ pos' = 1
    /\ rem' = RunLen(bigrams, 1)
    /\ pc' = "count_loop"
    /\ UNCHANGED <<alphabet, start_token, end_token, text, lines, ln, bigrams,
                   char_to_idx, idx_to_char, labels, err>>

\* n rounds of "for char1, char2 in bigrams", all inside the run at pos
CountN(n) ==
    /\ pc = "count_loop"
    /\ pos <= Len(bigrams)
    /\ IF Raises(bigram_counts, char_to_idx, bigrams[pos])
       THEN /\ err' = "IndexError"
            /\ pc' = "raised"
            /\ UNCHANGED <<bigram_counts, pos, rem>>
       ELSE /\ bigram_counts' =
                   CountRounds(bigram_counts, char_to_idx, bigrams[pos], n)
            /\ IF n = rem
               THEN pos' = pos + 1 /\ rem' = RunLen(bigrams, pos + 1)
               ELSE pos' = pos /\ rem' = rem - n
            /\ UNCHANGED <<pc, err>>
    /\ UNCHANGED <<alphabet, start_token, end_token, text, lines, ln, bigrams,
                   char_to_idx, idx_to_char, labels>>

\* one round of the loop: the last round of the run at pos
CountStep == rem = 1 /\ CountN(1)

\* the rounds of a run but its last, taken together
CountMany == rem > 1 /\ CountN(rem - 1)

CountReturn ==
    /\ pc = "count_loop"
    /\ pos > Len(bigrams)
    /\ pc' = "index_to_char"
    /\ UNCHANGED <<alphabet, start_token, end_token, text, lines, ln, bigrams,
                   char_to_idx, idx_to_char, bigram_counts, pos, rem, labels, err>>

CallIndexToChar ==
    /\ pc = "index_to_char"
    /\ idx_to_char' = index_to_char(char_to_idx)
    /\ pc' = "plot"
    /\ UNCHANGED <<alphabet, start_token, end_token, text, lines, ln, bigrams,
                   char_to_idx, bigram_counts, pos, rem, labels, err>>

Plot ==
    /\ pc = "plot"
    /\ IF PlotRaises(bigram_counts, idx_to_char)
       THEN err' = "KeyError" /\ pc' = "raised" /\ UNCHANGED labels
       ELSE /\ labels' = PlotLabels(bigram_counts, idx_to_char)
            /\ pc' = "done"
            /\ UNCHANGED err
    /\ UNCHANGED <<alphabet, start_token, end_token, text, lines, ln, bigrams,
                   char_to_idx, idx_to_char, bigram_counts, pos, rem>>

Next ==
    \/ CallCharToIndex("count_bigrams")
    \/ CountInit
    \/ CountStep
    \/ CountMany
    \/ CountReturn
    \/ CallIndexToChar
    \/ Plot

NextFile ==
    \/ CallCharToIndex("load")
    \/ ReadLines
    \/ LoadLine
    \/ LoadReturn
    \/ CountInit
    \/ CountStep
    \/ CountReturn
    \/ CallIndexToChar
    \/ Plot

Spec == Init /\ [][Next]_vars
SpecFile == InitFile /\ [][NextFile]_vars

(***************************************************************************)
(* Vocabulary                                                              *)
(***************************************************************************)
Distinct(a) == \A i, j \in DOMAIN a : i # j => a[i] # a[j]
InAlphabet(c) == \E k \in DOMAIN alphabet : alphabet[k] = c
Symbols == {alphabet[k] : k \in DOMAIN alphabet} \cup {start_token, end_token}

\* a duplicate-free alphabet, sentinels distinct from each other and from it
ValidVocabulary ==
    /\ Distinct(alphabet)
    /\ start_token # end_token
    /\ ~InAlphabet(start_token)
    /\ ~InAlphabet(end_token)

\* char_to_index has returned
Mapped == pc # "char_to_index"
\* index_to_char has returned
Reversed == pc \in {"plot", "done"} \/ (pc = "raised" /\ err = "KeyError")

\* C1: for a duplicate-free alphabet and sentinels distinct from each other
\* and from the alphabet, char_to_index returns len(alphabet) + 2 entries
\* and index_to_char of it is its exact inverse: the round trip gives back
\* every symbol, no two symbols share an index, and every index of
\* 0 .. len(alphabet) + 1 is mapped.
C1_Bijection ==
    (ValidVocabulary /\ Reversed) =>
        /\ Len(char_to_idx) = Len(alphabet) + 2
        /\ Keys(char_to_idx) = Symbols
        /\ \A c \in Symbols :
              /\ Has(idx_to_char, Get(char_to_idx, c))
              /\ Get(idx_to_char, Get(char_to_idx, c)) = c
        /\ \A c1, c2 \in Symbols :
              c1 # c2 => Get(char_to_idx, c1) # Get(char_to_idx, c2)
        /\ Keys(idx_to_char) = 0..(Len(alphabet) + 1)
        /\ Len(idx_to_char) = Len(alphabet) + 2

C1_Witness ==
    /\ ValidVocabulary
    /\ pc = "done"
    /\ Len(alphabet) = 2
    /\ Len(idx_to_char) = 4

\* C7: for a duplicate-free alphabet and sentinels distinct from each other
\* and from the alphabet, char_to_index maps start_token to 0, the alphabet
\* character at 0-based position k to k + 1 (the 1-based position), and
\* end_token to vocab_size - 1 = len(alphabet) + 1.
C7_IndexLayout ==
    (ValidVocabulary /\ Mapped) =>
        /\ Get(char_to_idx, start_token) = 0
        /\ \A k \in DOMAIN alphabet : Get(char_to_idx, alphabet[k]) = k
        /\ Get(char_to_idx, end_token) = Len(alphabet) + 1
        /\ Get(char_to_idx, end_token) = Len(char_to_idx) - 1

C7_Witness ==
    /\ ValidVocabulary
    /\ Mapped
    /\ Len(alphabet) = 2
    /\ Get(char_to_idx, alphabet[2]) = 2
    /\ Get(char_to_idx, end_token) = 3

\* the alphabet contains a character equal to start_token or end_token
Collision == InAlphabet(start_token) \/ InAlphabet(end_token)

\* C9, as stated: on a collision char_to_index raises no error, a
\* start_token found at alphabet position k is mapped to k + 1, an end_token
\* found in the alphabet is mapped to len(alphabet) + 1, and the mapping has
\* fewer than len(alphabet) + 2 entries.
C9_Original ==
    (Collision /\ Mapped /\ pc = "count_bigrams") =>
        /\ err = "none"
        /\ \A k \in DOMAIN alphabet :
              alphabet[k] = start_token => Get(char_to_idx, start_token) = k
        /\ InAlphabet(end_token) =>
              Get(char_to_idx, end_token) = Len(alphabet) + 1
        /\ Len(char_to_idx) < Len(alphabet) + 2

\* C9, amended: the same, the start_token being different from end_token and
\* k being its last position in the alphabet.
C9_Overwrite ==
    (Collision /\ Mapped /\ pc = "count_bigrams") =>
        /\ err = "none"
        /\ \A k \in DOMAIN alphabet :
              (/\ alphabet[k] = start_token
               /\ start_token # end_token
               /\ \A j \in DOMAIN alphabet : j > k => alphabet[j] # start_token)
              => Get(char_to_idx, start_token) = k
        /\ InAlphabet(end_token) =>
              Get(char_to_idx, end_token) = Len(alphabet) + 1
        /\ Len(char_to_idx) < Len(alphabet) + 2

C9_Witness ==
    /\ pc = "count_bigrams"
    /\ alphabet = <<"a", "b">>
    /\ start_token = "a"
    /\ end_token = "."
    /\ char_to_idx = <<<<"a", 1>>, <<"b", 2>>, <<".", 3>>>>

\* every index of the mapping addresses a row and a column of the tensor,
\* count_bigrams raises no IndexError, and index_to_char of the mapping has
\* an entry for every row and column index
IndicesInTable ==
    /\ Mapped =>
          \A i \in Values(char_to_idx) : 0 <= i /\ i < Len(char_to_idx)
    /\ err # "IndexError"
    /\ Reversed =>
          /\ \A i \in 0..(Len(char_to_idx) - 1) : Has(idx_to_char, i)
          /\ err # "KeyError"

\* C10, as stated: for any alphabet and any sentinels, every index of the
\* mapping lies in [0, len(m)), count_bigrams addresses no cell outside its
\* table and index_to_char(m) has an entry for every row and column index.
C10_Original == IndicesInTable

\* C10, amended: that holds for a duplicate-free alphabet and sentinels
\* distinct from each other and from the alphabet; for every other input
\* the mapping has fewer than len(alphabet) + 2 entries and maps end_token
\* to len(alphabet) + 1, an index outside the table.
C10_InTableIffValid ==
    /\ ValidVocabulary => IndicesInTable
    /\ (~ValidVocabulary /\ Mapped) =>
          /\ Len(char_to_idx) < Len(alphabet) + 2
          /\ Get(char_to_idx, end_token) = Len(alphabet) + 1
          /\ Get(char_to_idx, end_token) >= Len(char_to_idx)

C10_Witness ==
    /\ ValidVocabulary
    /\ pc = "done"
    /\ Len(alphabet) = 1
    /\ \E c \in DOMAIN bigram_counts : bigram_counts[c] > 0
    /\ \E p \in DOMAIN bigrams : ~InVocabulary(char_to_idx, bigrams[p])

(***************************************************************************)
(* Bigram extraction                                                       *)
(***************************************************************************)
\* the record holds a token
NonBlank(line) == \E k \in DOMAIN line : line[k] \notin Whitespace

\* the first whitespace-delimited token of a record that holds one
FirstToken(line) ==
    LET i == CHOOSE k \in DOMAIN line :
                 /\ line[k] \notin Whitespace
                 /\ \A m \in 1..(k - 1) : line[m] \in Whitespace
        j == CHOOSE k \in i..Len(line) :
                 /\ \A m \in i..k : line[m] \notin Whitespace
                 /\ k = Len(line) \/ line[k + 1] \in Whitespace
    IN SubSeq(line, i, j)

\* the lowercase form of a character (Unicode's mapping)
Lowercase(c) ==
    CASE c = "B" -> <<"b">>
      [] c = "I-dot" -> <<"i", "dot-above">>
      [] OTHER -> <<c>>

RECURSIVE LowercaseWord(_)
LowercaseWord(w) ==
    IF w = <<>> THEN <<>> ELSE Lowercase(w[1]) \o LowercaseWord(Tail(w))

Padded(w) == <<start_token>> \o LowercaseWord(w) \o <<end_token>>

\* the pairs of adjacent characters of a string, in order
Adjacent(p) == [k \in 1..(Len(p) - 1) |-> <<p[k], p[k + 1], 1>>]

\* load_and_preprocess_data has returned
Loaded == pc \notin {"char_to_index", "load", "load_loop"}

\* the source has one record, and the record holds a word
SingleWord == Loaded /\ Len(lines) = 1 /\ NonBlank(lines[1])

\* the first elements of the bigrams, then the second element of the last
Spelled(bs) ==
    [k \in 1..(Len(bs) + 1) |-> IF k <= Len(bs) THEN bs[k][1] ELSE bs[Len(bs)][2]]

Overlapping(bs) == \A k \in 1..(Len(bs) - 1) : bs[k][2] = bs[k + 1][1]

\* C3, as stated: a source whose only record contains the word w yields
\* exactly len(w) + 1 bigrams, consecutive bigrams overlap, and they spell
\* start_token + lowercase(w) + end_token.
C3_Original ==
    SingleWord =>
        LET w == FirstToken(lines[1]) IN
        /\ Len(bigrams) = Len(w) + 1
        /\ Overlapping(bigrams)
        /\ Spelled(bigrams) = Padded(w)

\* C3, amended: the source yields exactly len(lowercase(w)) + 1 bigrams
\* (len(w) + 1 when lowercasing keeps the length of w), consecutive bigrams
\* overlap, and they spell start_token + lowercase(w) + end_token.
C3_SingleWord ==
    SingleWord =>
        LET w == FirstToken(lines[1]) IN
        /\ Len(bigrams) = Len(LowercaseWord(w)) + 1
        /\ Len(LowercaseWord(w)) = Len(w) => Len(bigrams) = Len(w) + 1
        /\ \A k \in DOMAIN bigrams : bigrams[k][3] = 1
        /\ Overlapping(bigrams)
        /\ Spelled(bigrams) = Padded(w)

C3_Witness ==
    /\ SingleWord
    /\ Len(split(lines[1])) = 2
    /\ FirstToken(lines[1]) = <<"a", "B">>
    /\ Len(bigrams) = 3

\* C4, as stated: a record whose word has length 1 yields the one-element
\* list [(start_token, end_token)].
C4_Original ==
    (SingleWord /\ Len(FirstToken(lines[1])) = 1) =>
        bigrams = <<<<start_token, end_token, 1>>>>

\* C4, amended: a record whose word is the single character c yields the
\* len(lowercase(c)) + 1 bigrams of start_token + lowercase(c) + end_token:
\* when lowercase(c) is one character, the two bigrams
\* (start_token, lowercase(c)) and (lowercase(c), end_token); never the
\* single bigram (start_token, end_token).
C4_SingleCharacter ==
    (SingleWord /\ Len(FirstToken(lines[1])) = 1) =>
        LET c == FirstToken(lines[1])[1] IN
        /\ bigrams = Adjacent(Padded(<<c>>))
        /\ Len(bigrams) = Len(Lowercase(c)) + 1
        /\ Len(Lowercase(c)) = 1 =>
              bigrams = <<<<start_token, Lowercase(c)[1], 1>>,
                          <<Lowercase(c)[1], end_token, 1>>>>
        /\ bigrams # <<<<start_token, end_token, 1>>>>

C4_Witness ==
    /\ SingleWord
    /\ FirstToken(lines[1]) = <<"B">>
    /\ bigrams = <<<<start_token, "b", 1>>, <<"b", end_token, 1>>>>

\* the bigrams of the first n records
RECURSIVE ExpectedBigrams(_)
ExpectedBigrams(n) ==
    IF n = 0 THEN <<>>
    ELSE ExpectedBigrams(n - 1) \o
         (IF NonBlank(lines[n])
          THEN Adjacent(Padded(FirstToken(lines[n])))
          ELSE <<>>)

\* C6: the list built by load_and_preprocess_data is the concatenation, in
\* record order, of the bigram sequences of
\* start_token + lowercase(first token) + end_token of the records holding a
\* token; later tokens are ignored, a record without a token adds nothing
\* and raises no error, and an empty source yields an empty list and an
\* all-zero table.
C6_Concatenation ==
    /\ pc = "load_loop" => bigrams = ExpectedBigrams(ln)
    /\ pc \in {"load", "load_loop", "count_bigrams"} => err = "none"
    /\ Loaded =>
          /\ ln = Len(lines)
          /\ bigrams = ExpectedBigrams(Len(lines))
    /\ (Loaded /\ text = <<>>) =>
          /\ bigrams = <<>>
          /\ pc \in {"index_to_char", "plot", "done"} =>
                /\ Cardinality(DOMAIN bigram_counts) =
                      Len(char_to_idx) * Len(char_to_idx)
                /\ \A c \in DOMAIN bigram_counts : bigram_counts[c] = 0

C6_Witness ==
    /\ pc = "index_to_char"
    /\ Len(lines) = 2
    /\ Len(split(lines[1])) = 2
    /\ NonBlank(lines[2])
    /\ Len(bigrams) = 4

(***************************************************************************)
(* Counting                                                                *)
(*                                                                         *)
(* A list may hold more bigrams than an int32 cell can count, so numbers   *)
(* of bigrams are written <<q, r>> for q * Int32Max + r, 0 <= r < Int32Max.*)
(***************************************************************************)
Big(n) ==
    IF n = Int32Max THEN <<1, 0>>
    ELSE IF n >= 0 THEN <<0, n>>
    ELSE IF n = Int32Min THEN <<-2, Int32Max - 1>>
    ELSE <<-1, n + Int32Max>>

BigAdd(x, y) ==
    IF x[2] >= Int32Max - y[2]
    THEN <<x[1] + y[1] + 1, x[2] - (Int32Max - y[2])>>
    ELSE <<x[1] + y[1], x[2] + y[2]>>

\* the sum of all cells of a table
RECURSIVE BigSum(_, _)
BigSum(T, cells) ==
    IF cells = {} THEN Big(0)
    ELSE LET c == CHOOSE x \in cells : TRUE
         IN BigAdd(Big(T[c]), BigSum(T, cells \ {c}))

\* the number of bigrams of the first n runs that satisfy Test
RECURSIVE BigCount(_, _)
BigCount(Test(_), n) ==
    IF n = 0 THEN Big(0)
    ELSE BigAdd(IF Test(bigrams[n]) THEN Big(bigrams[n][3]) ELSE Big(0),
                BigCount(Test, n - 1))

\* count_bigrams has returned
Counted == pc \in {"index_to_char", "plot", "done"}

BothKeys(b) == b[1] \in Keys(char_to_idx) /\ b[2] \in Keys(char_to_idx)

\* the round of the loop on the bigram at pos is the step being taken
OneRound == pc = "count_loop" /\ rem = 1 /\ pos' = pos + 1

\* C2: for a vocabulary mapping and any bigram list, the sum of all cells of
\* the returned table is the number of bigrams of the list whose both
\* characters are keys of the mapping, and a bigram with a character absent
\* from the mapping raises no error and leaves every cell unchanged.
C2_SumIsInVocabularyCount ==
    /\ [](ValidVocabulary /\ Counted =>
            BigSum(bigram_counts, DOMAIN bigram_counts) =
                BigCount(BothKeys, Len(bigrams)))
    /\ [][(ValidVocabulary /\ OneRound /\ ~BothKeys(bigrams[pos])) =>
            (bigram_counts' = bigram_counts /\ err' = "none")]_vars

\* C5: for a mapping built from a duplicate-free alphabet and sentinels
\* distinct from each other and from it, cell (i, j) of the returned table
\* is the number of positions of the list that hold the ordered bigram
\* (index_to_char[i], index_to_char[j]).
C5_CellIsOccurrences ==
    (ValidVocabulary /\ pc \in {"plot", "done"}) =>
        \A c \in DOMAIN bigram_counts :
            LET Holds(b) == /\ b[1] = Get(idx_to_char, c[1])
                            /\ b[2] = Get(idx_to_char, c[2])
            IN Big(bigram_counts[c]) = BigCount(Holds, Len(bigrams))

\* C8: the table starts all-zero and keeps its shape, each processed bigram
\* leaves it unchanged or increases exactly one cell by exactly 1, and no
\* cell ever decreases or becomes negative, whatever the length of the list.
C8_OnlyIncrements ==
    /\ [](\A c \in DOMAIN bigram_counts : bigram_counts[c] >= 0)
    /\ [][/\ pc = "count_bigrams" =>
                /\ DOMAIN bigram_counts' =
                      (0..(Len(char_to_idx) - 1)) \X (0..(Len(char_to_idx) - 1))
                /\ \A c \in DOMAIN bigram_counts' : bigram_counts'[c] = 0
          /\ pc = "count_loop" =>
                /\ DOMAIN bigram_counts' = DOMAIN bigram_counts
                /\ \A c \in DOMAIN bigram_counts :
                      bigram_counts'[c] >= bigram_counts[c]
          /\ OneRound =>
                \/ bigram_counts' = bigram_counts
                \/ \E c \in DOMAIN bigram_counts :
                      /\ bigram_counts[c] < Int32Max
                      /\ bigram_counts'[c] = bigram_counts[c] + 1
                      /\ \A x \in DOMAIN bigram_counts \ {c} :
                            bigram_counts'[x] = bigram_counts[x]
         ]_vars

====
